---- MODULE Spec2Model ----
(***************************************************************************)
(* Model of kubeflex's kubeconfig handling (package kubeconfig):           *)
(* adjustConfigKeys, LoadAndMerge[NoWrite] and WatchForSecretCreation.     *)
(*                                                                         *)
(* A clientcmdapi.Config is a record                                       *)
(*   [Clusters, AuthInfos, Contexts, CurrentContext]                       *)
(* whose first three fields are Go maps, modelled as functions whose       *)
(* DOMAIN is the set of keys present.  Cluster and AuthInfo values are     *)
(* opaque (strings); a Context value is a record                           *)
(*   [Cluster, AuthInfo, Namespace].                                       *)
(***************************************************************************)
EXTENDS Integers, Sequences, FiniteSets, TLC

VARIABLES
    \* ---- adjustConfigKeys applied to one document ----
    config,          \* the *clientcmdapi.Config being adjusted
    cpName,          \* parameter cpName
    controlPlaneType,\* parameter controlPlaneType
    input,           \* the document as it was before the first call
    once,            \* the document after the first call
    applied,         \* number of adjustConfigKeys calls made so far
    \* ---- LoadAndMerge / LoadAndMergeNoWrite ----
    fileExists,      \* the default kubeconfig file exists
    kubeconfigFile,  \* its content (the persisted aggregate)
    pc,              \* per caller: position in LoadAndMerge[NoWrite]
    callName,        \* per caller: parameter name
    callType,        \* per caller: parameter controlPlaneType
    noWrite,         \* per caller: the call is LoadAndMergeNoWrite
    bytes,           \* per caller: ks.Data[key]
    cpKonfig,        \* per caller: local cpKonfig
    konfig,          \* per caller: local / supplied konfig
    loaded,          \* per caller: konfig as loaded or supplied, before merge
    result,          \* per caller: the error returned ("ok" for nil)
    lastMerged,      \* per name: the remapped bundle of its last successful LoadAndMerge
    nCalls,          \* calls started so far
    steps,           \* per caller: the steps the current call has executed, in order
    fileAtCall,      \* per caller: the file when the current call started
    \* ---- WatchForSecretCreation ----
    wpc,             \* the caller's position in WatchForSecretCreation
    secretName,      \* parameter secretName
    reachable,       \* the API server answers the informer's list and watch
    stopCh,          \* the channel stopCh
    controller,      \* the goroutine controller.Run(stopCh)
    panicked,        \* the process has died of "close of closed channel"
    observed,        \* the names AddFunc has been called with, in order
    werr,            \* the error WatchForSecretCreation has returned ("nil" for nil)
    \* ---- VClusterReconciler.Reconcile ----
    rpc,             \* position in Reconcile
    rhcp,            \* parameter hcp (the control plane's name)
    rerr,            \* the err of the step that failed ("nil" if none)
    rsteps,          \* the steps this call has run, each with its outcome
    statusLog,       \* every status update recorded so far, in order
    nReconciles      \* Reconcile calls started so far

remapVars == <<config, cpName, controlPlaneType, input, once, applied>>

mergeVars == <<fileExists, kubeconfigFile, pc, callName, callType, noWrite, bytes,
               cpKonfig, konfig, loaded, result, lastMerged, nCalls, steps, fileAtCall>>

watchVars == <<wpc, secretName, reachable, stopCh, controller, panicked, observed,
               werr>>

reconcileVars == <<rpc, rhcp, rerr, rsteps, statusLog, nReconciles>>

vars == <<remapVars, mergeVars, watchVars, reconcileVars>>

\* what the actions of one part leave alone
nonRemapVars == <<mergeVars, watchVars, reconcileVars>>
nonMergeVars == <<remapVars, watchVars, reconcileVars>>
nonWatchVars == <<remapVars, mergeVars, reconcileVars>>
nonReconcileVars == <<remapVars, mergeVars, watchVars>>

(***************************************************************************)
(* Bounds                                                                  *)
(***************************************************************************)
MaxApply == 2        \* adjustConfigKeys calls on one document
MaxCalls == 2        \* LoadAndMerge / LoadAndMergeNoWrite calls in one behaviour
MaxEvents == 3       \* creation events the informer hands to AddFunc in one behaviour
MaxReconciles == 2   \* Reconcile calls in one behaviour

(***************************************************************************)
(* Control-plane types and names                                           *)
(***************************************************************************)
ControlPlaneTypeOCM == "ocm"
ControlPlaneTypeVCluster == "vcluster"
ControlPlaneTypeK8S == "k8s"

Types == {ControlPlaneTypeOCM, ControlPlaneTypeVCluster, ControlPlaneTypeK8S}
KnownTypes == {ControlPlaneTypeOCM, ControlPlaneTypeVCluster}

Names == {"cp1", "cp2"}

\* certs.GenerateClusterName / GenerateAuthInfoAdminName / GenerateContextName:
\* deterministic, injective in the control-plane name.
GenerateClusterName(name) == name \o "-cluster"
GenerateAuthInfoAdminName(name) == name \o "-admin"
GenerateContextName(name) == name \o "-ctx"

\* The generic keys adjustConfigKeys looks for, per type.
GenericClusterKey(type) ==
    IF type = ControlPlaneTypeOCM THEN "multicluster-controlplane" ELSE "my-vcluster"
GenericAuthInfoKey(type) ==
    IF type = ControlPlaneTypeOCM THEN "user" ELSE "my-vcluster"
GenericContextKey(type) ==
    IF type = ControlPlaneTypeOCM THEN "multicluster-controlplane" ELSE "my-vcluster"

(***************************************************************************)
(* Documents                                                               *)
(***************************************************************************)
EmptyMap == << >>

\* clientcmdapi.NewConfig(): empty, non-nil maps and no current context.
NewConfig ==
    [Clusters |-> EmptyMap, AuthInfos |-> EmptyMap, Contexts |-> EmptyMap,
     CurrentContext |-> ""]

\* &clientcmdapi.Context{Cluster: c, AuthInfo: a}: every other field zero.
Context(c, a) == [Cluster |-> c, AuthInfo |-> a, Namespace |-> ""]

PartialFns(K, V) == UNION {[S -> V] : S \in SUBSET K}

\* the zero value stored by a map read of an absent key
Nil == "nil"

(***************************************************************************)
(* renameKey (one case per map type; the three cases are the same code)    *)
(***************************************************************************)
\* renameKey without the `ok` test: an absent oldKey stores the zero value.
renameKey_NoOk(m, oldKey, newKey) ==
    [k \in (DOMAIN m \ {oldKey}) \cup {newKey} |->
        IF k = newKey
        THEN (IF oldKey \in DOMAIN m THEN m[oldKey] ELSE Nil)
        ELSE m[k]]

\* renameKey that copies instead of moving (no delete of oldKey).
renameKey_NoDelete(m, oldKey, newKey) ==
    IF oldKey \in DOMAIN m
    THEN [k \in DOMAIN m \cup {newKey} |-> IF k = newKey THEN m[oldKey] ELSE m[k]]
    ELSE m

renameKey(m, oldKey, newKey) ==
    IF oldKey \in DOMAIN m
    THEN [k \in (DOMAIN m \ {oldKey}) \cup {newKey} |->
            IF k = newKey THEN m[oldKey] ELSE m[k]]
    ELSE m

\* m[key] = value on a Go map
MapSet(m, key, value) ==
    [k \in DOMAIN m \cup {key} |-> IF k = key THEN value ELSE m[k]]

(***************************************************************************)
(* adjustConfigKeys                                                        *)
(***************************************************************************)
\* AdjustKnown that updates the record found at the generated context key
\* in place instead of storing a fresh one
AdjustKnown_KeepContext(c, name, type) ==
    LET clusters  == renameKey(c.Clusters, GenericClusterKey(type),
                               GenerateClusterName(name))
        authInfos == renameKey(c.AuthInfos, GenericAuthInfoKey(type),
                               GenerateAuthInfoAdminName(name))
        contexts  == renameKey(c.Contexts, GenericContextKey(type),
                               GenerateContextName(name))
        fresh     == Context(GenerateClusterName(name),
                             GenerateAuthInfoAdminName(name))
    IN  [Clusters       |-> clusters,
         AuthInfos      |-> authInfos,
         Contexts       |-> IF GenerateContextName(name) \in DOMAIN contexts
                            THEN [contexts EXCEPT ![GenerateContextName(name)] =
                                     [@ EXCEPT !.Cluster = fresh.Cluster,
                                               !.AuthInfo = fresh.AuthInfo]]
                            ELSE MapSet(contexts, GenerateContextName(name), fresh),
         CurrentContext |-> GenerateContextName(name)]

\* the body shared by the OCM and VCluster cases
AdjustKnown(c, name, type) ==
    LET clusters  == renameKey(c.Clusters, GenericClusterKey(type),
                               GenerateClusterName(name))
        authInfos == renameKey(c.AuthInfos, GenericAuthInfoKey(type),
                               GenerateAuthInfoAdminName(name))
        contexts  == renameKey(c.Contexts, GenericContextKey(type),
                               GenerateContextName(name))
    IN  [Clusters       |-> clusters,
         AuthInfos      |-> authInfos,
         Contexts       |-> MapSet(contexts, GenerateContextName(name),
                                   Context(GenerateClusterName(name),
                                           GenerateAuthInfoAdminName(name))),
         CurrentContext |-> GenerateContextName(name)]

\* adjustConfigKeys whose default case falls into the VCluster case
adjustConfigKeys_NoDefault(c, name, type) ==
    IF type = ControlPlaneTypeOCM
    THEN AdjustKnown(c, name, ControlPlaneTypeOCM)
    ELSE AdjustKnown(c, name, ControlPlaneTypeVCluster)

\* adjustConfigKeys that upserts the context only when the generic one existed
adjustConfigKeys_NoUpsert(c, name, type) ==
    IF type \in KnownTypes
    THEN IF GenericContextKey(type) \in DOMAIN c.Contexts
         THEN AdjustKnown(c, name, type)
         ELSE [AdjustKnown(c, name, type) EXCEPT
                 !.Contexts = c.Contexts, !.CurrentContext = c.CurrentContext]
    ELSE c

adjustConfigKeys(c, name, type) ==
    IF type \in KnownTypes THEN AdjustKnown(c, name, type) ELSE c

(***************************************************************************)
(* Callers of LoadAndMerge / LoadAndMergeNoWrite                           *)
(***************************************************************************)
Procs == {1, 2}
\* the callers of a behaviour whose calls do not overlap
SeqProcs == {1}

\* ks.Data[key]: absent key (nil bytes), bytes that do not parse, or an encoded document
EmptyBytes == [kind |-> "empty", doc |-> NewConfig]
MalformedBytes == [kind |-> "malformed", doc |-> NewConfig]
Encode(d) == [kind |-> "yaml", doc |-> d]

NoMerge == [done |-> FALSE, type |-> "", doc |-> NewConfig]

\* the default kubeconfig file: absent, or holding a document
NoFile == [exists |-> FALSE, doc |-> NewConfig]
File(exists, doc) == [exists |-> exists, doc |-> doc]

\* Reconcile has not been called
ReconcileIdle ==
    /\ rpc = "idle"
    /\ rhcp = ""
    /\ rerr = "nil"
    /\ rsteps = << >>
    /\ statusLog = << >>
    /\ nReconciles = 0

\* WatchForSecretCreation has not been called
WatchIdle ==
    /\ wpc = "idle"
    /\ secretName = ""
    /\ reachable = FALSE
    /\ stopCh = "nil"
    /\ controller = "none"
    /\ panicked = FALSE
    /\ observed = << >>
    /\ werr = "none"

\* no call in progress, no aggregate written yet
MergeIdle ==
    /\ fileExists = FALSE
    /\ kubeconfigFile = NewConfig
    /\ pc = [p \in Procs |-> "idle"]
    /\ callName = [p \in Procs |-> ""]
    /\ callType = [p \in Procs |-> ""]
    /\ noWrite = [p \in Procs |-> FALSE]
    /\ bytes = [p \in Procs |-> EmptyBytes]
    /\ cpKonfig = [p \in Procs |-> NewConfig]
    /\ konfig = [p \in Procs |-> NewConfig]
    /\ loaded = [p \in Procs |-> NewConfig]
    /\ result = [p \in Procs |-> ""]
    /\ lastMerged = [n \in Names |-> NoMerge]
    /\ nCalls = 0
    /\ steps = [p \in Procs |-> << >>]
    /\ fileAtCall = [p \in Procs |-> NoFile]

(***************************************************************************)
(* Specification SpecRemap: adjustConfigKeys applied repeatedly to an      *)
(* arbitrary decoded document.                                             *)
(***************************************************************************)
ClusterValues == {"C1", "C2"}
AuthInfoValues == {"A1", "A2"}
\* contexts as they may appear in a bundle or in an older aggregate
ContextValues ==
    {[Cluster |-> "my-vcluster", AuthInfo |-> "my-vcluster", Namespace |-> "ns1"],
     [Cluster |-> "multicluster-controlplane", AuthInfo |-> "user", Namespace |-> ""]}

RemapClusterKeys == {"multicluster-controlplane", "my-vcluster", GenerateClusterName("cp1")}
RemapAuthInfoKeys == {"user", "my-vcluster", GenerateAuthInfoAdminName("cp1")}
RemapContextKeys == {"multicluster-controlplane", "my-vcluster", GenerateContextName("cp1")}

RemapDocs ==
    [Clusters  : {m \in PartialFns(RemapClusterKeys, ClusterValues) :
                    GenerateClusterName("cp1") \in DOMAIN m
                        => m[GenerateClusterName("cp1")] = "C2"},
     AuthInfos : {m \in PartialFns(RemapAuthInfoKeys, AuthInfoValues) :
                    /\ GenerateAuthInfoAdminName("cp1") \in DOMAIN m
                        => m[GenerateAuthInfoAdminName("cp1")] = "A2"
                    /\ "user" \in DOMAIN m => m["user"] = "A1"},
     Contexts  : {m \in PartialFns(RemapContextKeys, ContextValues) :
                    \A k \in DOMAIN m \ {"my-vcluster"} :
                        m[k].Namespace = ""},
     CurrentContext : {"", "my-vcluster"}]

InitRemap ==
    /\ config \in RemapDocs
    /\ cpName \in Names
    /\ controlPlaneType \in Types
    /\ input = config
    /\ once = config
    /\ applied = 0
    /\ MergeIdle
    /\ WatchIdle
    /\ ReconcileIdle

\* one call adjustConfigKeys(config, cpName, controlPlaneType)
AdjustConfigKeys ==
    /\ applied < MaxApply
    /\ config' = adjustConfigKeys(config, cpName, controlPlaneType)
    /\ once' = IF applied = 0 THEN config' ELSE once
    /\ applied' = applied + 1
    /\ UNCHANGED <<cpName, controlPlaneType, input>>
    /\ UNCHANGED nonRemapVars

NextRemap == AdjustConfigKeys

SpecRemap == InitRemap /\ [][NextRemap]_vars

(***************************************************************************)
(* Claims about adjustConfigKeys (checked under SpecRemap)                 *)
(***************************************************************************)
GC == GenerateClusterName(cpName)
GA == GenerateAuthInfoAdminName(cpName)
GX == GenerateContextName(cpName)
KnownType == controlPlaneType \in KnownTypes
HasGenericKeys(c) ==
    /\ GenericClusterKey(controlPlaneType) \in DOMAIN c.Clusters
    /\ GenericAuthInfoKey(controlPlaneType) \in DOMAIN c.AuthInfos
    /\ GenericContextKey(controlPlaneType) \in DOMAIN c.Contexts

\* m and n agree (same keys present, same values) outside the keys in `except`
SameExcept(m, n, except) ==
    /\ DOMAIN m \ except = DOMAIN n \ except
    /\ \A k \in DOMAIN m \ except : m[k] = n[k]

\* C1: for a known type, the document after two calls of adjustConfigKeys
\* (same name, same type) equals the document after one call, field by field.
C1_RemapIdempotent ==
    (KnownType /\ applied = 2) =>
        /\ config.Clusters = once.Clusters
        /\ config.AuthInfos = once.AuthInfos
        /\ config.Contexts = once.Contexts
        /\ config.CurrentContext = once.CurrentContext

C1_Witness ==
    /\ KnownType /\ applied = 2
    /\ HasGenericKeys(input)
    /\ once # input
    /\ config = once

\* C2: for a type that is neither OCM nor VCluster the document after the call
\* equals the document before it.
C2_UnknownTypeNoOp ==
    (~KnownType /\ applied >= 1) =>
        /\ config.Clusters = input.Clusters
        /\ config.AuthInfos = input.AuthInfos
        /\ config.Contexts = input.Contexts
        /\ config.CurrentContext = input.CurrentContext

C2_Witness ==
    /\ ~KnownType /\ applied >= 1
    /\ "my-vcluster" \in DOMAIN input.Clusters
    /\ "my-vcluster" \in DOMAIN input.Contexts
    /\ input.CurrentContext = "my-vcluster"
    /\ config = input

\* C3: for a known type, after the call the generic keys are absent from the
\* three maps; where the generic cluster / authInfo key was present its value is
\* now stored under the generated key; a map without the generic key is left as
\* it was (the contexts map apart from the upserted generated key); keys other
\* than the generic and the generated one are untouched.
C3_RenameMovesGenericKeys ==
    (KnownType /\ applied >= 1) =>
        LET gc == GenericClusterKey(controlPlaneType)
            ga == GenericAuthInfoKey(controlPlaneType)
            gx == GenericContextKey(controlPlaneType)
        IN  /\ gc \notin DOMAIN once.Clusters
            /\ ga \notin DOMAIN once.AuthInfos
            /\ gx \notin DOMAIN once.Contexts
            /\ gc \in DOMAIN input.Clusters =>
                   /\ GC \in DOMAIN once.Clusters
                   /\ once.Clusters[GC] = input.Clusters[gc]
            /\ ga \in DOMAIN input.AuthInfos =>
                   /\ GA \in DOMAIN once.AuthInfos
                   /\ once.AuthInfos[GA] = input.AuthInfos[ga]
            /\ gc \notin DOMAIN input.Clusters => once.Clusters = input.Clusters
            /\ ga \notin DOMAIN input.AuthInfos => once.AuthInfos = input.AuthInfos
            /\ gx \notin DOMAIN input.Contexts =>
                   SameExcept(once.Contexts, input.Contexts, {GX})
            /\ SameExcept(once.Clusters, input.Clusters, {gc, GC})
            /\ SameExcept(once.AuthInfos, input.AuthInfos, {ga, GA})
            /\ SameExcept(once.Contexts, input.Contexts, {gx, GX})

\* all three generic keys were present, and the generated cluster key held
\* another value that the rename has replaced
C3_Witness ==
    /\ KnownType /\ applied >= 1
    /\ HasGenericKeys(input)
    /\ GC \in DOMAIN input.Clusters
    /\ input.Clusters[GC] # input.Clusters[GenericClusterKey(controlPlaneType)]
    /\ once.Clusters[GC] = input.Clusters[GenericClusterKey(controlPlaneType)]
    /\ ~HasGenericKeys(once)

\* C4: for a known type, after the call currentContext is the generated context
\* name and contexts holds an entry at that key that references the generated
\* cluster and authInfo names.
C4_CurrentContextIndexesContexts ==
    (KnownType /\ applied >= 1) =>
        /\ config.CurrentContext = GX
        /\ GX \in DOMAIN config.Contexts
        /\ config.Contexts[GX].Cluster = GC
        /\ config.Contexts[GX].AuthInfo = GA

\* the input had neither the generic nor the generated context key
C4_Witness ==
    /\ KnownType /\ applied >= 1
    /\ GenericContextKey(controlPlaneType) \notin DOMAIN input.Contexts
    /\ GX \notin DOMAIN input.Contexts
    /\ input.CurrentContext = ""
    /\ config.CurrentContext = GX
    /\ GX \in DOMAIN config.Contexts

(***************************************************************************)
(* merge (CredentialMerger): every source key is stored in the             *)
(* destination, overwriting; CurrentContext takes the source's value.      *)
(***************************************************************************)
MapUnion(dst, src) ==
    [k \in DOMAIN dst \cup DOMAIN src |-> IF k \in DOMAIN src THEN src[k] ELSE dst[k]]

merge(existing, new) ==
    [Clusters       |-> MapUnion(existing.Clusters, new.Clusters),
     AuthInfos      |-> MapUnion(existing.AuthInfos, new.AuthInfos),
     Contexts       |-> MapUnion(existing.Contexts, new.Contexts),
     CurrentContext |-> new.CurrentContext]

\* merge(cpKonfig, konfig): the arguments swapped, konfig is left as it was
MergeCall_Swapped(k, cp) == k

\* the call merge(konfig, cpKonfig) of LoadAndMerge and LoadAndMergeNoWrite:
\* konfig after the call
MergeCall(k, cp) == merge(k, cp)

\* WriteKubeconfig(ctx, cpKonfig): the bundle written instead of the aggregate
WrittenConfig_Bundle(k, cp) == cp

\* a write that merges the bundle into the file as it is now, not an overwrite
WrittenConfig_Reload(k, cp) == merge(kubeconfigFile, cp)

\* the document LoadAndMerge hands to WriteKubeconfig
WrittenConfig(k, cp) == k

\* adjustConfigKeys called with the control-plane type where the name belongs
RemapCall_FixedName(c, name, type) == adjustConfigKeys(c, "cp1", type)

\* adjustConfigKeys that leaves CurrentContext alone
RemapCall_NoCurrent(c, name, type) ==
    [adjustConfigKeys(c, name, type) EXCEPT !.CurrentContext = c.CurrentContext]

\* the call adjustConfigKeys(cpKonfig, name, controlPlaneType)
RemapCall(c, name, type) == adjustConfigKeys(c, name, type)

(***************************************************************************)
(* The bundles a control plane's secret may hold, and the aggregates       *)
(* found on disk before the first call                                     *)
(***************************************************************************)
One(k, v) == [x \in {k} |-> v]

\* A bundle of a known type holds the type's generic keys, or lacks them;
\* a k8s bundle already holds the control plane's own generated names.
BundleDocs(name, type) ==
    IF type \in KnownTypes
    THEN {[Clusters       |-> cl,
           AuthInfos      |-> au,
           Contexts       |-> cx,
           CurrentContext |-> IF cx = EmptyMap THEN "" ELSE GenericContextKey(type)] :
            cl \in {EmptyMap} \cup {One(GenericClusterKey(type), v) : v \in ClusterValues},
            au \in {EmptyMap, One(GenericAuthInfoKey(type), "A1")},
            cx \in {EmptyMap,
                    One(GenericContextKey(type),
                        [Cluster   |-> GenericClusterKey(type),
                         AuthInfo  |-> GenericAuthInfoKey(type),
                         Namespace |-> "ns1"])}}
    ELSE {[Clusters       |-> One(GenerateClusterName(name), v),
           AuthInfos      |-> One(GenerateAuthInfoAdminName(name), "A1"),
           Contexts       |-> One(GenerateContextName(name),
                                  [Cluster   |-> GenerateClusterName(name),
                                   AuthInfo  |-> GenerateAuthInfoAdminName(name),
                                   Namespace |-> "ns1"]),
           CurrentContext |-> GenerateContextName(name)] :
            v \in ClusterValues}

\* the kubeconfig of the hosting cluster, before any control plane is merged
HostConfig ==
    [Clusters       |-> One("kind-kubeflex", "C1"),
     AuthInfos      |-> One("kind-kubeflex", "A1"),
     Contexts       |-> One("kind-kubeflex",
                            [Cluster |-> "kind-kubeflex", AuthInfo |-> "kind-kubeflex",
                             Namespace |-> ""]),
     CurrentContext |-> "kind-kubeflex"]

RemapIdle ==
    /\ config = NewConfig
    /\ cpName = ""
    /\ controlPlaneType = ""
    /\ input = NewConfig
    /\ once = NewConfig
    /\ applied = 0

InitMerge ==
    /\ RemapIdle
    /\ WatchIdle
    /\ ReconcileIdle
    /\ fileExists \in BOOLEAN
    /\ kubeconfigFile = IF fileExists THEN HostConfig ELSE NewConfig
    /\ pc = [p \in Procs |-> "idle"]
    /\ callName = [p \in Procs |-> ""]
    /\ callType = [p \in Procs |-> ""]
    /\ noWrite = [p \in Procs |-> FALSE]
    /\ bytes = [p \in Procs |-> EmptyBytes]
    /\ cpKonfig = [p \in Procs |-> NewConfig]
    /\ konfig = [p \in Procs |-> NewConfig]
    /\ loaded = [p \in Procs |-> NewConfig]
    /\ result = [p \in Procs |-> ""]
    /\ lastMerged = [n \in Names |-> NoMerge]
    /\ nCalls = 0
    /\ steps = [p \in Procs |-> << >>]
    /\ fileAtCall = [p \in Procs |-> NoFile]

(***************************************************************************)
(* LoadAndMerge and LoadAndMergeNoWrite, statement by statement            *)
(***************************************************************************)
\* the current call executes step s
Step(p, s) == steps' = [steps EXCEPT ![p] = Append(@, s)]

\* return err
Fail(p, err) ==
    /\ pc' = [pc EXCEPT ![p] = "done"]
    /\ result' = [result EXCEPT ![p] = err]

\* a caller enters LoadAndMerge(ctx, client, name, controlPlaneType)
CallLoadAndMerge(p, others) ==
    /\ pc[p] = "idle"
    /\ \A q \in others : pc[q] = "idle"
    /\ nCalls < MaxCalls
    /\ \E name \in Names, type \in Types :
        /\ callName' = [callName EXCEPT ![p] = name]
        /\ callType' = [callType EXCEPT ![p] = type]
    /\ noWrite' = [noWrite EXCEPT ![p] = FALSE]
    /\ pc' = [pc EXCEPT ![p] = "fetch"]
    /\ nCalls' = nCalls + 1
    /\ fileAtCall' = [fileAtCall EXCEPT ![p] = File(fileExists, kubeconfigFile)]
    /\ UNCHANGED steps
    /\ UNCHANGED <<fileExists, kubeconfigFile, bytes, cpKonfig, konfig, loaded,
                   result, lastMerged>>
    /\ UNCHANGED nonMergeVars

\* a caller enters LoadAndMergeNoWrite(ctx, client, name, controlPlaneType, konfig)
\* with a konfig it has read from the file, or a new one
CallLoadAndMergeNoWrite(p, others) ==
    /\ pc[p] = "idle"
    /\ \A q \in others : pc[q] = "idle"
    /\ nCalls < MaxCalls
    /\ \E name \in Names, type \in Types :
        /\ callName' = [callName EXCEPT ![p] = name]
        /\ callType' = [callType EXCEPT ![p] = type]
    /\ \E k \in {NewConfig, kubeconfigFile} :
        /\ konfig' = [konfig EXCEPT ![p] = k]
        /\ loaded' = [loaded EXCEPT ![p] = k]
    /\ noWrite' = [noWrite EXCEPT ![p] = TRUE]
    /\ pc' = [pc EXCEPT ![p] = "fetch"]
    /\ nCalls' = nCalls + 1
    /\ fileAtCall' = [fileAtCall EXCEPT ![p] = File(fileExists, kubeconfigFile)]
    /\ UNCHANGED steps
    /\ UNCHANGED <<fileExists, kubeconfigFile, bytes, cpKonfig, result, lastMerged>>
    /\ UNCHANGED nonMergeVars

\* loadControlPlaneKubeconfig: client.CoreV1().Secrets(namespace).Get(...)
GetSecret(p) ==
    /\ pc[p] = "fetch"
    /\ Step(p, "fetch")
    /\ UNCHANGED fileAtCall
    /\ \/ /\ Fail(p, "NotFound")
          /\ UNCHANGED bytes
       \/ /\ \E b \in {EmptyBytes, MalformedBytes}
                      \cup {Encode(d) : d \in BundleDocs(callName[p], callType[p])} :
                bytes' = [bytes EXCEPT ![p] = b]
          /\ pc' = [pc EXCEPT ![p] = "decode"]
          /\ UNCHANGED result
    /\ UNCHANGED <<fileExists, kubeconfigFile, callName, callType, noWrite, cpKonfig,
                   konfig, loaded, lastMerged, nCalls>>
    /\ UNCHANGED nonMergeVars

\* a LoadAndMerge that forgets adjustConfigKeys: after decoding it goes on to
\* the aggregate
Decode_SkipRemap(p) ==
    /\ pc[p] = "decode"
    /\ Step(p, "decode")
    /\ IF bytes[p].kind = "malformed"
       THEN /\ Fail(p, "DecodeError")
            /\ UNCHANGED cpKonfig
       ELSE /\ cpKonfig' = [cpKonfig EXCEPT ![p] =
                               IF bytes[p].kind = "empty" THEN NewConfig ELSE bytes[p].doc]
            /\ pc' = [pc EXCEPT ![p] = IF noWrite[p] THEN "merge" ELSE "load"]
            /\ UNCHANGED result
    /\ UNCHANGED <<fileExists, kubeconfigFile, callName, callType, noWrite, bytes,
                   konfig, loaded, lastMerged, nCalls, fileAtCall>>
    /\ UNCHANGED nonMergeVars

\* loadControlPlaneKubeconfig: clientcmd.Load(ks.Data[key]); no data gives a new Config
Decode(p) ==
    /\ pc[p] = "decode"
    /\ Step(p, "decode")
    /\ UNCHANGED fileAtCall
    /\ IF bytes[p].kind = "malformed"
       THEN /\ Fail(p, "DecodeError")
            /\ UNCHANGED cpKonfig
       ELSE /\ cpKonfig' = [cpKonfig EXCEPT ![p] =
                               IF bytes[p].kind = "empty" THEN NewConfig ELSE bytes[p].doc]
            /\ pc' = [pc EXCEPT ![p] = "remap"]
            /\ UNCHANGED result
    /\ UNCHANGED <<fileExists, kubeconfigFile, callName, callType, noWrite, bytes,
                   konfig, loaded, lastMerged, nCalls>>
    /\ UNCHANGED nonMergeVars

\* LoadAndMergeNoWrite that goes on like LoadAndMerge: it loads the file too
Remap_AlwaysLoad(p) ==
    /\ pc[p] = "remap"
    /\ Step(p, "remap")
    /\ cpKonfig' = [cpKonfig EXCEPT ![p] = RemapCall(cpKonfig[p], callName[p], callType[p])]
    /\ pc' = [pc EXCEPT ![p] = "load"]
    /\ UNCHANGED <<fileExists, kubeconfigFile, callName, callType, noWrite, bytes,
                   konfig, loaded, result, lastMerged, nCalls, fileAtCall>>
    /\ UNCHANGED nonMergeVars

\* adjustConfigKeys(cpKonfig, name, controlPlaneType)
Remap(p) ==
    /\ pc[p] = "remap"
    /\ Step(p, "remap")
    /\ UNCHANGED fileAtCall
    /\ cpKonfig' = [cpKonfig EXCEPT ![p] = RemapCall(cpKonfig[p], callName[p], callType[p])]
    /\ pc' = [pc EXCEPT ![p] = IF noWrite[p] THEN "merge" ELSE "load"]
    /\ UNCHANGED <<fileExists, kubeconfigFile, callName, callType, noWrite, bytes,
                   konfig, loaded, result, lastMerged, nCalls>>
    /\ UNCHANGED nonMergeVars

\* LoadKubeconfig whose error is ignored: a missing file counts as an empty aggregate
LoadKubeconfig_IgnoreError(p) ==
    /\ pc[p] = "load"
    /\ Step(p, "load")
    /\ konfig' = [konfig EXCEPT ![p] = kubeconfigFile]
    /\ loaded' = [loaded EXCEPT ![p] = kubeconfigFile]
    /\ pc' = [pc EXCEPT ![p] = "merge"]
    /\ UNCHANGED <<fileExists, kubeconfigFile, callName, callType, noWrite, bytes,
                   cpKonfig, lastMerged, nCalls, result, fileAtCall>>
    /\ UNCHANGED nonMergeVars

\* konfig, err := LoadKubeconfig(ctx)
LoadKubeconfig(p) ==
    /\ pc[p] = "load"
    /\ Step(p, "load")
    /\ UNCHANGED fileAtCall
    /\ IF fileExists
       THEN /\ konfig' = [konfig EXCEPT ![p] = kubeconfigFile]
            /\ loaded' = [loaded EXCEPT ![p] = kubeconfigFile]
            /\ pc' = [pc EXCEPT ![p] = "merge"]
            /\ UNCHANGED result
       ELSE /\ Fail(p, "LoadError")
            /\ UNCHANGED <<konfig, loaded>>
    /\ UNCHANGED <<fileExists, kubeconfigFile, callName, callType, noWrite, bytes,
                   cpKonfig, lastMerged, nCalls>>
    /\ UNCHANGED nonMergeVars

\* err = merge(konfig, cpKonfig)
Merge(p) ==
    /\ pc[p] = "merge"
    /\ Step(p, "merge")
    /\ UNCHANGED fileAtCall
    /\ \/ /\ konfig' = [konfig EXCEPT ![p] = MergeCall(konfig[p], cpKonfig[p])]
          /\ IF noWrite[p]
             THEN /\ pc' = [pc EXCEPT ![p] = "done"]
                  /\ result' = [result EXCEPT ![p] = "ok"]
             ELSE /\ pc' = [pc EXCEPT ![p] = "persist"]
                  /\ UNCHANGED result
       \/ /\ Fail(p, "MergeError")
          /\ UNCHANGED konfig
    /\ UNCHANGED <<fileExists, kubeconfigFile, callName, callType, noWrite, bytes,
                   cpKonfig, loaded, lastMerged, nCalls>>
    /\ UNCHANGED nonMergeVars

\* return WriteKubeconfig(ctx, konfig): the file is overwritten, or the write fails
WriteKubeconfig(p) ==
    /\ pc[p] = "persist"
    /\ Step(p, "persist")
    /\ UNCHANGED fileAtCall
    /\ \/ /\ kubeconfigFile' = WrittenConfig(konfig[p], cpKonfig[p])
          /\ fileExists' = TRUE
          /\ lastMerged' = [lastMerged EXCEPT ![callName[p]] =
                               [done |-> TRUE, type |-> callType[p], doc |-> cpKonfig[p]]]
          /\ pc' = [pc EXCEPT ![p] = "done"]
          /\ result' = [result EXCEPT ![p] = "ok"]
       \/ /\ Fail(p, "PersistError")
          /\ UNCHANGED <<kubeconfigFile, fileExists, lastMerged>>
    /\ UNCHANGED <<callName, callType, noWrite, bytes, cpKonfig, konfig, loaded, nCalls>>
    /\ UNCHANGED nonMergeVars

\* the caller has the result; the call's locals are gone
Return(p) ==
    /\ pc[p] = "done"
    /\ pc' = [pc EXCEPT ![p] = "idle"]
    /\ callName' = [callName EXCEPT ![p] = ""]
    /\ callType' = [callType EXCEPT ![p] = ""]
    /\ noWrite' = [noWrite EXCEPT ![p] = FALSE]
    /\ bytes' = [bytes EXCEPT ![p] = EmptyBytes]
    /\ cpKonfig' = [cpKonfig EXCEPT ![p] = NewConfig]
    /\ konfig' = [konfig EXCEPT ![p] = NewConfig]
    /\ loaded' = [loaded EXCEPT ![p] = NewConfig]
    /\ result' = [result EXCEPT ![p] = ""]
    /\ steps' = [steps EXCEPT ![p] = << >>]
    /\ fileAtCall' = [fileAtCall EXCEPT ![p] = NoFile]
    /\ UNCHANGED <<fileExists, kubeconfigFile, lastMerged, nCalls>>
    /\ UNCHANGED nonMergeVars

\* calls that do not overlap
NextMerge ==
    \/ \E p \in SeqProcs : CallLoadAndMerge(p, Procs \ {p})
    \/ \E p \in SeqProcs : CallLoadAndMergeNoWrite(p, Procs \ {p})
    \/ \E p \in SeqProcs : GetSecret(p)
    \/ \E p \in SeqProcs : Decode(p)
    \/ \E p \in SeqProcs : Remap(p)
    \/ \E p \in SeqProcs : LoadKubeconfig(p)
    \/ \E p \in SeqProcs : Merge(p)
    \/ \E p \in SeqProcs : WriteKubeconfig(p)
    \/ \E p \in SeqProcs : Return(p)

SpecMerge == InitMerge /\ [][NextMerge]_vars

(***************************************************************************)
(* Claims about merge and LoadAndMerge (checked under SpecMerge)           *)
(***************************************************************************)
\* caller p has merged: konfig[p] is the result of merge(loaded[p], cpKonfig[p])
Merged(p) == pc[p] = "persist" \/ (pc[p] = "done" /\ result[p] = "ok")
\* caller p's LoadAndMerge has returned nil
Persisted(p) == pc[p] = "done" /\ result[p] = "ok" /\ ~noWrite[p]

\* every key of dst.X that src.X lacks is in res.X with dst's value, and every
\* key of src.X is in res.X
PreservedMap(dst, src, res) ==
    /\ \A k \in DOMAIN dst \ DOMAIN src : k \in DOMAIN res /\ res[k] = dst[k]
    /\ \A k \in DOMAIN src : k \in DOMAIN res
Preserved(dst, src, res) ==
    /\ PreservedMap(dst.Clusters, src.Clusters, res.Clusters)
    /\ PreservedMap(dst.AuthInfos, src.AuthInfos, res.AuthInfos)
    /\ PreservedMap(dst.Contexts, src.Contexts, res.Contexts)

\* every entry of src.X is in res.X with the same value
ContainsMap(res, src) == \A k \in DOMAIN src : k \in DOMAIN res /\ res[k] = src[k]
Contains(res, src) ==
    /\ ContainsMap(res.Clusters, src.Clusters)
    /\ ContainsMap(res.AuthInfos, src.AuthInfos)
    /\ ContainsMap(res.Contexts, src.Contexts)

\* C5: after merge a key that only the destination held is still there with its
\* value and every source key is there, in the caller's konfig (LoadAndMerge and
\* LoadAndMergeNoWrite) and in the file LoadAndMerge has written.
C5_MergePreservesForeignEntries ==
    \A p \in Procs :
        /\ Merged(p) => Preserved(loaded[p], cpKonfig[p], konfig[p])
        /\ Persisted(p) =>
              fileExists /\ Preserved(loaded[p], cpKonfig[p], kubeconfigFile)

\* the aggregate held another control plane's cluster, the source did not
C5_Witness ==
    \E p \in Procs :
        /\ Persisted(p)
        /\ callName[p] = "cp2"
        /\ GenerateClusterName("cp2") \in DOMAIN cpKonfig[p].Clusters
        /\ GenerateClusterName("cp1") \in DOMAIN loaded[p].Clusters
        /\ "kind-kubeflex" \in DOMAIN kubeconfigFile.Clusters
        /\ GenerateClusterName("cp1") \in DOMAIN kubeconfigFile.Clusters
        /\ GenerateClusterName("cp2") \in DOMAIN kubeconfigFile.Clusters

\* C6: after merge the value at every source key is the source's value, also
\* where the destination held another value at that key.
C6_MergeLastWriterWins ==
    \A p \in Procs :
        Merged(p) => Contains(konfig[p], cpKonfig[p])

\* source and destination held different clusters at the same key
C6_Witness ==
    \E p \in Procs :
        /\ Merged(p)
        /\ \E k \in DOMAIN cpKonfig[p].Clusters \cap DOMAIN loaded[p].Clusters :
              /\ cpKonfig[p].Clusters[k] # loaded[p].Clusters[k]
              /\ konfig[p].Clusters[k] = cpKonfig[p].Clusters[k]

\* C7: merge sets the destination's currentContext to the source's, and after a
\* successful LoadAndMerge for a known type the file's currentContext is the
\* generated context name of the control plane just merged.
C7_MergeSetsCurrentContext ==
    \A p \in Procs :
        /\ Merged(p) => konfig[p].CurrentContext = cpKonfig[p].CurrentContext
        /\ (Persisted(p) /\ callType[p] \in KnownTypes) =>
              /\ fileExists
              /\ kubeconfigFile.CurrentContext = GenerateContextName(callName[p])

\* the aggregate pointed at another control plane before the call
C7_Witness ==
    \E p \in Procs :
        /\ Persisted(p)
        /\ callType[p] \in KnownTypes
        /\ callName[p] = "cp2"
        /\ loaded[p].CurrentContext = GenerateContextName("cp1")
        /\ kubeconfigFile.CurrentContext = GenerateContextName("cp2")

\* C8: with calls that do not overlap, the file holds every entry of the
\* remapped bundle of each control plane's last successful LoadAndMerge, and for
\* a known type the control plane's generated context.
C8_AggregateAccumulates ==
    \A n \in Names :
        lastMerged[n].done =>
            /\ fileExists
            /\ Contains(kubeconfigFile, lastMerged[n].doc)
            /\ lastMerged[n].type \in KnownTypes =>
                  /\ GenerateContextName(n) \in DOMAIN kubeconfigFile.Contexts
                  /\ kubeconfigFile.Contexts[GenerateContextName(n)]
                        = Context(GenerateClusterName(n), GenerateAuthInfoAdminName(n))

\* two control planes of known types merged one after the other
C8_Witness ==
    /\ \A n \in Names :
          /\ lastMerged[n].done
          /\ lastMerged[n].type \in KnownTypes
          /\ GenerateClusterName(n) \in DOMAIN lastMerged[n].doc.Clusters
          /\ GenerateClusterName(n) \in DOMAIN kubeconfigFile.Clusters
          /\ GenerateAuthInfoAdminName(n) \in DOMAIN kubeconfigFile.AuthInfos
    /\ \E p \in Procs : Persisted(p)

(***************************************************************************)
(* WatchForSecretCreation: the caller, and the informer's goroutine that   *)
(* calls AddFunc for every secret it lists or sees created                 *)
(***************************************************************************)
SecretNames == {"vc-vcluster", "admin-kubeconfig", "other"}

\* AddFunc that closes stopCh for any secret
Matches_Any(name, target) == TRUE

\* secret.Name == secretName
Matches(name, target) == name = target

InitWatch ==
    /\ RemapIdle
    /\ MergeIdle
    /\ ReconcileIdle
    /\ wpc = "start"
    /\ secretName \in {"vc-vcluster", "admin-kubeconfig"}
    /\ reachable \in BOOLEAN
    /\ stopCh = "nil"
    /\ controller = "none"
    /\ panicked = FALSE
    /\ observed = << >>
    /\ werr = "none"

\* stopCh := make(chan struct{}); cache.NewInformer(...); go controller.Run(stopCh);
\* the caller then blocks in <-stopCh
WatchStart ==
    /\ wpc = "start"
    /\ ~panicked
    /\ stopCh' = "open"
    /\ controller' = "running"
    /\ wpc' = "waiting"
    /\ UNCHANGED <<secretName, reachable, panicked, observed, werr>>
    /\ UNCHANGED nonWatchVars

\* the informer calls AddFunc(obj) for a secret named `name`; closing a closed
\* channel panics in the informer's goroutine, which ends the process
AddFunc(name) ==
    /\ controller = "running"
    /\ reachable
    /\ ~panicked
    /\ Len(observed) < MaxEvents
    /\ observed' = Append(observed, name)
    /\ IF Matches(name, secretName)
       THEN IF stopCh = "open"
            THEN stopCh' = "closed" /\ UNCHANGED panicked
            ELSE panicked' = TRUE /\ UNCHANGED stopCh
       ELSE UNCHANGED <<stopCh, panicked>>
    /\ UNCHANGED <<wpc, secretName, reachable, controller, werr>>
    /\ UNCHANGED nonWatchVars

\* controller.Run returns once it has seen stopCh closed
ControllerStop ==
    /\ controller = "running"
    /\ stopCh = "closed"
    /\ ~panicked
    /\ controller' = "stopped"
    /\ UNCHANGED <<wpc, secretName, reachable, stopCh, panicked, observed, werr>>
    /\ UNCHANGED nonWatchVars

\* <-stopCh completes; return nil
WatchReturn ==
    /\ wpc = "waiting"
    /\ stopCh = "closed"
    /\ ~panicked
    /\ wpc' = "returned"
    /\ werr' = "nil"
    /\ UNCHANGED <<secretName, reachable, stopCh, controller, panicked, observed>>
    /\ UNCHANGED nonWatchVars

NextWatch ==
    \/ WatchStart
    \/ \E name \in SecretNames : AddFunc(name)
    \/ ControllerStop
    \/ WatchReturn

SpecWatch == InitWatch /\ [][NextWatch]_vars

\* the Go scheduler runs every goroutine that can run: the caller once stopCh
\* is closed, the informer's goroutine until it has stopped
SpecWatchFair ==
    /\ SpecWatch
    /\ WF_vars(WatchStart)
    /\ WF_vars(WatchReturn)
    /\ WF_vars(ControllerStop)

(***************************************************************************)
(* Claims about WatchForSecretCreation                                     *)
(***************************************************************************)
MatchObserved == \E i \in 1..Len(observed) : observed[i] = secretName

\* C9: once AddFunc has been called with a secret named secretName, the caller
\* eventually returns (checked under SpecWatchFair).
C9_WaitResolvesOnMatch == MatchObserved ~> (wpc = "returned")

\* what the code does guarantee under SpecWatchFair: after a match the caller
\* returns unless a second match has closed the closed channel
ResolvesOrPanics == MatchObserved ~> (wpc = "returned" \/ panicked)

\* C10: the caller has returned only if AddFunc has been called with a secret
\* named secretName; as long as every event carried another name (or there was
\* none) the caller has not returned.
C10_NoReturnBeforeMatch == (wpc = "returned") => MatchObserved

\* another secret was created first, then the awaited one, and the caller returned
C10_Witness ==
    /\ wpc = "returned"
    /\ Len(observed) = 2
    /\ observed[1] # secretName
    /\ observed[2] = secretName

\* C11: stopCh is closed at most once: no behaviour reaches the failure of
\* closing the closed channel, whatever events AddFunc is called with.
C11_StopChClosedAtMostOnce == ~panicked

\* C13: when the API server cannot be reached the call returns a
\* SubscriptionError: it is never left waiting and never returns nil.
C13_SubscriptionErrorWhenUnreachable ==
    (~reachable /\ wpc # "start") => (wpc = "returned" /\ werr = "SubscriptionError")

\* C18: once the caller has returned, controller.Run eventually returns
\* (checked under SpecWatchFair), and a stopped controller calls AddFunc no more.
C18_ListenerTornDown == (wpc = "returned") ~> (controller = "stopped")

\* what the code does guarantee under SpecWatchFair: after the return the
\* controller stops unless a second match has ended the process first
StopsOrPanics == (wpc = "returned") ~> (controller = "stopped" \/ panicked)

\* a stopped controller delivers nothing
StoppedIsQuiet == [][controller = "stopped" => observed' = observed]_vars

(***************************************************************************)
(* Claims about the steps of LoadAndMerge / LoadAndMergeNoWrite            *)
(***************************************************************************)
\* the error each step fails with
StepError(step) ==
    CASE step = "fetch"   -> "NotFound"
      [] step = "decode"  -> "DecodeError"
      [] step = "load"    -> "LoadError"
      [] step = "merge"   -> "MergeError"
      [] step = "persist" -> "PersistError"
      [] OTHER            -> "none"

Executed(p, step) == \E i \in 1..Len(steps[p]) : steps[p][i] = step
Failed(p) == pc[p] = "done" /\ result[p] # "ok"
CurrentFile == File(fileExists, kubeconfigFile)

\* C12: a call that returns an error returns the error of the last step it
\* executed, has executed nothing after it, and has left the file as it was when
\* the call started (persist did not run unless it is the step that failed); a
\* LoadAndMerge started with no file never succeeds and creates no file.
C12_ErrorAbortsAndLeavesFile ==
    \A p \in Procs :
        /\ Failed(p) =>
              /\ steps[p] # << >>
              /\ result[p] = StepError(steps[p][Len(steps[p])])
              /\ result[p] # "PersistError" => ~Executed(p, "persist")
              /\ CurrentFile = fileAtCall[p]
        /\ (pc[p] # "idle" /\ ~noWrite[p] /\ ~fileAtCall[p].exists) =>
              /\ ~fileExists
              /\ ~Executed(p, "merge")
              /\ ~Executed(p, "persist")
              /\ pc[p] = "done" => result[p] = "LoadError" \/ result[p] = "NotFound"
                                     \/ result[p] = "DecodeError"

\* no aggregate existed: the load error ended the call and nothing was written
C12_Witness ==
    \E p \in Procs :
        /\ Failed(p)
        /\ result[p] = "LoadError"
        /\ steps[p] = <<"fetch", "decode", "remap", "load">>
        /\ bytes[p].kind = "yaml"
        /\ ~fileExists

\* C14: when the secret lacks the payload key of the type (ks.Data[key] holds no
\* bytes) the call fails with KeyMissingError before it remaps, merges or
\* persists anything.
C14_KeyMissingError ==
    \A p \in Procs :
        (pc[p] \notin {"idle", "fetch", "decode"} /\ bytes[p].kind = "empty") =>
            /\ pc[p] = "done"
            /\ result[p] = "KeyMissingError"
            /\ ~Executed(p, "merge")
            /\ ~Executed(p, "persist")

\* what the code does with a secret that lacks the key: LoadAndMerge returns nil
\* and has written an aggregate whose current context points at a cluster and a
\* user the bundle never provided
KeyMissingIsMerged ==
    \E p \in Procs :
        /\ Persisted(p)
        /\ bytes[p].kind = "empty"
        /\ callType[p] \in KnownTypes
        /\ kubeconfigFile.CurrentContext = GenerateContextName(callName[p])
        /\ GenerateClusterName(callName[p]) \notin DOMAIN kubeconfigFile.Clusters

\* C15: a LoadAndMergeNoWrite call neither loads nor writes the file, which stays
\* as it was when the call started, on every path; when it returns nil it has
\* executed fetch, decode, remap, merge and the supplied konfig holds the merge
\* of the remapped bundle.
C15_NoWriteNeverPersists ==
    \A p \in Procs :
        (pc[p] # "idle" /\ noWrite[p]) =>
            /\ ~Executed(p, "load")
            /\ ~Executed(p, "persist")
            /\ CurrentFile = fileAtCall[p]
            /\ (pc[p] = "done" /\ result[p] = "ok") =>
                  /\ steps[p] = <<"fetch", "decode", "remap", "merge">>
                  /\ Contains(konfig[p], cpKonfig[p])
                  /\ Preserved(loaded[p], cpKonfig[p], konfig[p])
                  /\ konfig[p].CurrentContext = cpKonfig[p].CurrentContext

\* the supplied konfig now holds the control plane's cluster, the file does not
C15_Witness ==
    \E p \in Procs :
        /\ noWrite[p] /\ pc[p] = "done" /\ result[p] = "ok"
        /\ fileExists
        /\ loaded[p] = kubeconfigFile
        /\ GenerateClusterName(callName[p]) \in DOMAIN konfig[p].Clusters
        /\ GenerateClusterName(callName[p]) \notin DOMAIN kubeconfigFile.Clusters

\* the documented order of the steps of LoadAndMerge
Order == <<"fetch", "decode", "remap", "load", "merge", "persist">>
IsPrefix(s, t) == Len(s) <= Len(t) /\ \A i \in 1..Len(s) : s[i] = t[i]
\* what clientcmd.Load yields for the bytes the call has fetched
Decoded(b) == IF b.kind = "yaml" THEN b.doc ELSE NewConfig

\* C16: the steps a LoadAndMerge call has executed are always a prefix of
\* fetch, decode, remap, load, merge, persist (that order, each at most once);
\* when the call returns nil it has executed all six, and the file holds exactly
\* the aggregate as it was loaded in this call with the remapped bundle merged
\* into it.
C16_StepsInOrder ==
    \A p \in Procs :
        (pc[p] # "idle" /\ ~noWrite[p]) =>
            /\ IsPrefix(steps[p], Order)
            /\ Persisted(p) =>
                  /\ steps[p] = Order
                  /\ loaded[p] = fileAtCall[p].doc
                  /\ fileExists
                  /\ kubeconfigFile =
                        merge(loaded[p],
                              adjustConfigKeys(Decoded(bytes[p]), callName[p], callType[p]))

\* all six steps ran and the file changed
C16_Witness ==
    \E p \in Procs :
        /\ Persisted(p)
        /\ steps[p] = Order
        /\ bytes[p].kind = "yaml"
        /\ GenericClusterKey(callType[p]) \in DOMAIN bytes[p].doc.Clusters
        /\ kubeconfigFile # fileAtCall[p].doc
        /\ GenerateClusterName(callName[p]) \in DOMAIN kubeconfigFile.Clusters

(***************************************************************************)
(* Specification SpecRace: LoadAndMerge calls of several callers against   *)
(* the same file, one call per caller, their statements interleaved        *)
(* (nothing in the code serialises them)                                   *)
(***************************************************************************)
InitRace == InitMerge

\* each caller merges its own control plane
OwnName(p) == IF p = 1 THEN "cp1" ELSE "cp2"

\* caller p enters LoadAndMerge(ctx, client, OwnName(p), type), whatever the
\* other caller is doing
CallLoadAndMergeOwn(p) ==
    /\ pc[p] = "idle"
    /\ nCalls < MaxCalls
    /\ \E type \in KnownTypes :
        callType' = [callType EXCEPT ![p] = type]
    /\ callName' = [callName EXCEPT ![p] = OwnName(p)]
    /\ noWrite' = [noWrite EXCEPT ![p] = FALSE]
    /\ pc' = [pc EXCEPT ![p] = "fetch"]
    /\ nCalls' = nCalls + 1
    /\ fileAtCall' = [fileAtCall EXCEPT ![p] = File(fileExists, kubeconfigFile)]
    /\ UNCHANGED steps
    /\ UNCHANGED <<fileExists, kubeconfigFile, bytes, cpKonfig, konfig, loaded,
                   result, lastMerged>>
    /\ UNCHANGED nonMergeVars

NextRace ==
    \/ \E p \in Procs : CallLoadAndMergeOwn(p)
    \/ \E p \in Procs : GetSecret(p)
    \/ \E p \in Procs : Decode(p)
    \/ \E p \in Procs : Remap(p)
    \/ \E p \in Procs : LoadKubeconfig(p)
    \/ \E p \in Procs : Merge(p)
    \/ \E p \in Procs : WriteKubeconfig(p)

SpecRace == InitRace /\ [][NextRace]_vars

(***************************************************************************)
(* Claims about concurrent LoadAndMerge calls (checked under SpecRace)     *)
(***************************************************************************)
\* C17: when two concurrent LoadAndMerge calls have both returned nil, the file
\* is exactly the konfig one of them wrote (a full overwrite, no merge with the
\* other writer), and it lacks entries of the other's bundle only if the
\* writer had loaded the file before the other persisted; that lost update is
\* reachable (C17_Witness).
C17_LostUpdateByOverwrite ==
    \A p, q \in Procs :
        (p # q /\ Persisted(p) /\ Persisted(q)) =>
            /\ fileExists
            /\ kubeconfigFile = konfig[p] \/ kubeconfigFile = konfig[q]
            /\ ~Contains(kubeconfigFile, cpKonfig[p]) =>
                  /\ kubeconfigFile = konfig[q]
                  /\ ~Contains(loaded[q], cpKonfig[p])

\* both calls loaded the same file, both returned nil, and the file lacks the
\* cluster, the user and the context of one of the two control planes
C17_Witness ==
    \E p, q \in Procs :
        /\ p # q /\ Persisted(p) /\ Persisted(q)
        /\ loaded[p] = loaded[q]
        /\ GenerateClusterName(callName[p]) \in DOMAIN cpKonfig[p].Clusters
        /\ GenerateAuthInfoAdminName(callName[p]) \in DOMAIN cpKonfig[p].AuthInfos
        /\ GenerateClusterName(callName[p]) \notin DOMAIN kubeconfigFile.Clusters
        /\ GenerateAuthInfoAdminName(callName[p]) \notin DOMAIN kubeconfigFile.AuthInfos
        /\ GenerateContextName(callName[p]) \notin DOMAIN kubeconfigFile.Contexts
        /\ GenerateClusterName(callName[q]) \in DOMAIN kubeconfigFile.Clusters

(***************************************************************************)
(* VClusterReconciler.Reconcile: the three steps and the status update are *)
(* calls into shared.BaseReconciler, each of which may return an error     *)
(***************************************************************************)
ServiceName == "vcluster"
ServicePort == 443

\* the errors a step may return
ReconcileErrors == {"errA", "errB"}

\* a step that was run, its arguments beyond (ctx, hcp) and the err it returned
Ran(step, service, port, err) ==
    [step |-> step, service |-> service, port |-> port, err |-> err]

InitReconcile ==
    /\ RemapIdle
    /\ MergeIdle
    /\ WatchIdle
    /\ ReconcileIdle

\* the controller calls Reconcile(ctx, hcp)
ReconcileStart ==
    /\ rpc = "idle"
    /\ nReconciles < MaxReconciles
    /\ \E hcp \in Names : rhcp' = hcp
    /\ rpc' = "namespace"
    /\ nReconciles' = nReconciles + 1
    /\ UNCHANGED <<rerr, rsteps, statusLog>>
    /\ UNCHANGED nonReconcileVars

\* a step has returned err: go on with `next` if it is nil, else to
\* return r.UpdateStatusForSyncingError(hcp, err)
AfterStep(err, next) ==
    /\ rerr' = err
    /\ rpc' = IF err = "nil" THEN next ELSE "statusError"

\* if err := r.BaseReconciler.ReconcileNamespace(ctx, hcp); err != nil
ReconcileNamespace ==
    /\ rpc = "namespace"
    /\ \E err \in ReconcileErrors \cup {"nil"} :
        /\ rsteps' = Append(rsteps, Ran("ReconcileNamespace", "", 0, err))
        /\ AfterStep(err, "chart")
    /\ UNCHANGED <<rhcp, statusLog, nReconciles>>
    /\ UNCHANGED nonReconcileVars

\* a ReconcileChart whose error is dropped
ReconcileChart_IgnoreError ==
    /\ rpc = "chart"
    /\ \E err \in ReconcileErrors \cup {"nil"} :
        /\ rsteps' = Append(rsteps, Ran("ReconcileChart", "", 0, err))
        /\ AfterStep("nil", "ingress")
    /\ UNCHANGED <<rhcp, statusLog, nReconciles>>
    /\ UNCHANGED nonReconcileVars

\* if err := r.ReconcileChart(ctx, hcp); err != nil
ReconcileChart ==
    /\ rpc = "chart"
    /\ \E err \in ReconcileErrors \cup {"nil"} :
        /\ rsteps' = Append(rsteps, Ran("ReconcileChart", "", 0, err))
        /\ AfterStep(err, "ingress")
    /\ UNCHANGED <<rhcp, statusLog, nReconciles>>
    /\ UNCHANGED nonReconcileVars

\* if err := r.ReconcileAPIServerIngress(ctx, hcp, ServiceName, ServicePort); err != nil
ReconcileAPIServerIngress ==
    /\ rpc = "ingress"
    /\ \E err \in ReconcileErrors \cup {"nil"} :
        /\ rsteps' = Append(rsteps,
                            Ran("ReconcileAPIServerIngress", ServiceName, ServicePort, err))
        /\ AfterStep(err, "statusSuccess")
    /\ UNCHANGED <<rhcp, statusLog, nReconciles>>
    /\ UNCHANGED nonReconcileVars

\* return r.UpdateStatusForSyncingError(hcp, err)
UpdateStatusForSyncingError ==
    /\ rpc = "statusError"
    /\ statusLog' = Append(statusLog, [hcp |-> rhcp, kind |-> "error", err |-> rerr])
    /\ rpc' = "done"
    /\ UNCHANGED <<rhcp, rerr, rsteps, nReconciles>>
    /\ UNCHANGED nonReconcileVars

\* return r.UpdateStatusForSyncingSuccess(ctx, hcp)
UpdateStatusForSyncingSuccess ==
    /\ rpc = "statusSuccess"
    /\ statusLog' = Append(statusLog, [hcp |-> rhcp, kind |-> "success", err |-> "nil"])
    /\ rpc' = "done"
    /\ UNCHANGED <<rhcp, rerr, rsteps, nReconciles>>
    /\ UNCHANGED nonReconcileVars

\* Reconcile has returned; its locals are gone
ReconcileReturn ==
    /\ rpc = "done"
    /\ rpc' = "idle"
    /\ rhcp' = ""
    /\ rerr' = "nil"
    /\ rsteps' = << >>
    /\ UNCHANGED <<statusLog, nReconciles>>
    /\ UNCHANGED nonReconcileVars

NextReconcile ==
    \/ ReconcileStart
    \/ ReconcileNamespace
    \/ ReconcileChart
    \/ ReconcileAPIServerIngress
    \/ UpdateStatusForSyncingError
    \/ UpdateStatusForSyncingSuccess
    \/ ReconcileReturn

SpecReconcile == InitReconcile /\ [][NextReconcile]_vars

(***************************************************************************)
(* Claims about Reconcile (checked under SpecReconcile)                    *)
(***************************************************************************)
ReconcileOrder == <<"ReconcileNamespace", "ReconcileChart", "ReconcileAPIServerIngress">>
LastStatus == statusLog[Len(statusLog)]

\* C19: the steps run in the order ReconcileNamespace, ReconcileChart,
\* ReconcileAPIServerIngress and no step runs after one that failed; when the
\* call is over exactly one status update has been recorded for it: the error
\* update carrying the error of the step that failed, or the success update if
\* all three steps ran and none failed; before that none has been recorded.
C19_ReconcileOrderAndStatus ==
    /\ Len(rsteps) <= 3
    /\ \A i \in 1..Len(rsteps) :
          /\ rsteps[i].step = ReconcileOrder[i]
          /\ i < Len(rsteps) => rsteps[i].err = "nil"
    /\ rpc \in {"namespace", "chart", "ingress", "statusError", "statusSuccess"} =>
          Len(statusLog) = nReconciles - 1
    /\ rpc \in {"idle", "done"} => Len(statusLog) = nReconciles
    /\ rpc = "done" =>
          /\ rsteps # << >>
          /\ LastStatus.hcp = rhcp
          /\ IF rsteps[Len(rsteps)].err # "nil"
             THEN /\ LastStatus.kind = "error"
                  /\ LastStatus.err = rsteps[Len(rsteps)].err
             ELSE /\ LastStatus.kind = "success"
                  /\ Len(rsteps) = 3

\* a second call whose ReconcileChart failed with errB after a call that succeeded
C19_Witness ==
    /\ rpc = "done"
    /\ Len(statusLog) = 2
    /\ statusLog[1].kind = "success"
    /\ Len(rsteps) = 2
    /\ rsteps[2].err = "errB"
    /\ statusLog[2] = [hcp |-> rhcp, kind |-> "error", err |-> "errB"]

(***************************************************************************)
(* The context record at the generated key (checked under SpecRemap)       *)
(***************************************************************************)
\* C20: for a known type, after adjustConfigKeys the context stored at
\* GenerateContextName(name) is the fresh record that holds the generated
\* cluster and authInfo names and nothing else, whatever the generic context or
\* a context already at that key held; the cluster and authInfo values found at
\* the generic keys are stored unchanged at the generated keys.
C20_FreshContextRecord ==
    (KnownType /\ applied >= 1) =>
        /\ GX \in DOMAIN once.Contexts /\ once.Contexts[GX] = Context(GC, GA)
        /\ GX \in DOMAIN config.Contexts /\ config.Contexts[GX] = Context(GC, GA)
        /\ GenericClusterKey(controlPlaneType) \in DOMAIN input.Clusters =>
              /\ GC \in DOMAIN once.Clusters
              /\ once.Clusters[GC] = input.Clusters[GenericClusterKey(controlPlaneType)]
        /\ GenericAuthInfoKey(controlPlaneType) \in DOMAIN input.AuthInfos =>
              /\ GA \in DOMAIN once.AuthInfos
              /\ once.AuthInfos[GA] = input.AuthInfos[GenericAuthInfoKey(controlPlaneType)]

\* the generic context had a default namespace, another context and another
\* cluster were already stored at the generated keys, and one call has been made
C20_Witness ==
    /\ KnownType
    /\ applied = 1
    /\ GenericContextKey(controlPlaneType) \in DOMAIN input.Contexts
    /\ input.Contexts[GenericContextKey(controlPlaneType)].Namespace = "ns1"
    /\ GX \in DOMAIN input.Contexts
    /\ input.Contexts[GX] # Context(GC, GA)
    /\ GC \in DOMAIN input.Clusters
    /\ GenericClusterKey(controlPlaneType) \in DOMAIN input.Clusters
    /\ input.Clusters[GenericClusterKey(controlPlaneType)] # input.Clusters[GC]
    /\ once.Clusters[GC] = input.Clusters[GenericClusterKey(controlPlaneType)]
    /\ once.Contexts[GX].Namespace = ""

====
